---- MODULE Spec2Model ----
(***************************************************************************)
(* Visor 3D backend: the REST handlers for projects and quotes, in the     *)
(* local-filesystem variant (scene.json / cotizacion.json per folder) and  *)
(* the Supabase variant (projects / quotes tables + storage bucket).       *)
(* Every request is applied to both variants, each on its own store, so    *)
(* that their answers and their stores can be compared.                    *)
(*                                                                         *)
(* Encoding of JavaScript values:                                          *)
(*   - an optional value is a sequence of length 0 (absent) or 1;          *)
(*   - a string field that may be undefined uses the string Undef;         *)
(*   - a text (project name, id) is a sequence of one-character strings,   *)
(*     the empty sequence being "" / undefined (both falsy);               *)
(*   - a JS value that reaches Number() is a pair <<tag, n>>.              *)
(***************************************************************************)
EXTENDS Integers, Sequences, FiniteSets, TLC

VARIABLES
  fsScene,    \* filesystem: id -> optional scene.json document
  fsFiles,    \* filesystem: id -> set of model files <<ext, content>> in public/<id>
  fsQuote,    \* filesystem: id -> optional cotizacion.json document
  sbProjects, \* Supabase: set of rows of table projects
  sbBucket,   \* Supabase: set of storage objects <<id, ext, content>>
  sbQuotes,   \* Supabase: set of rows of table quotes
  req,        \* the request being answered
  fsResp,     \* the filesystem variant's response to req
  sbResp,     \* the Supabase variant's response to req
  faults,     \* Supabase backend failures: whether this run allows them, and the current one
  steps       \* number of requests handled so far

vars == <<fsScene, fsFiles, fsQuote, sbProjects, sbBucket, sbQuotes,
          req, fsResp, sbResp, faults, steps>>

fsStore == <<fsScene, fsFiles, fsQuote>>
sbStore == <<sbProjects, sbBucket, sbQuotes>>

-----------------------------------------------------------------------------
(* Bounds *)

MaxSteps == 3
MaxItems == 2

-----------------------------------------------------------------------------
(* Optional values *)

None == <<>>
Some(x) == <<x>>
IsSome(o) == Len(o) = 1
Get(o) == o[1]

Undef == "undefined"

(* x || d on strings: "" and undefined are falsy *)
StrOr(x, d) == IF x = Undef \/ x = "" THEN d ELSE x

(* !x on strings *)
Falsy(x) == x = Undef \/ x = ""

-----------------------------------------------------------------------------
(* slugify: the project id derived from the project name *)

SlugMax == 40

Proyecto == <<"p", "r", "o", "y", "e", "c", "t", "o">>

Combining == {"COMB_ACUTE", "COMB_TILDE"}

(* String.prototype.normalize("NFD") on one character *)
NfdChar(c) ==
  CASE c = "é" -> <<"e", "COMB_ACUTE">>
    [] c = "ñ" -> <<"n", "COMB_TILDE">>
    [] OTHER -> <<c>>

RECURSIVE NormalizeNFD(_)
NormalizeNFD(s) ==
  IF s = <<>> THEN <<>> ELSE NfdChar(Head(s)) \o NormalizeNFD(Tail(s))

(* .replace(/[̀-ͯ]/g, "") *)
StripMarks(s) == SelectSeq(s, LAMBDA c : c \notin Combining)

LowerChar(c) ==
  CASE c = "A" -> "a"
    [] c = "B" -> "b"
    [] OTHER -> c

ToLowerCase(s) == [i \in 1..Len(s) |-> LowerChar(s[i])]

AlphaNum == {"a", "b", "e", "n", "1", "2",
             "p", "r", "o", "y", "c", "t"}

(* .replace(/[^a-z0-9]+/g, "-"): each maximal run becomes one dash *)
RECURSIVE DashRuns(_)
DashRuns(s) ==
  IF s = <<>> THEN <<>>
  ELSE IF Head(s) \in AlphaNum THEN <<Head(s)>> \o DashRuns(Tail(s))
  ELSE LET rest == DashRuns(Tail(s))
       IN IF Len(s) > 1 /\ s[2] \notin AlphaNum THEN rest ELSE <<"-">> \o rest

(* .replace(/^-+|-+$/g, "") *)
RECURSIVE TrimLeft(_)
TrimLeft(s) == IF s # <<>> /\ Head(s) = "-" THEN TrimLeft(Tail(s)) ELSE s

RECURSIVE TrimRight(_)
TrimRight(s) ==
  IF s # <<>> /\ s[Len(s)] = "-" THEN TrimRight(SubSeq(s, 1, Len(s) - 1)) ELSE s

TrimDashes(s) == TrimRight(TrimLeft(s))

(* .substring(0, 40) *)
Substring(s, n) == IF Len(s) <= n THEN s ELSE SubSeq(s, 1, n)

slugify(str) ==
  LET s0 == IF str = <<>> THEN Proyecto ELSE str
      s1 == Substring(TrimDashes(DashRuns(ToLowerCase(StripMarks(NormalizeNFD(s0))))),
                      SlugMax)
  IN IF s1 = <<>> THEN Proyecto ELSE s1

-----------------------------------------------------------------------------
(* hashPassword: SHA-256 hex digest, modelled as an injective tagging *)

hashPassword(password) == <<"sha256", password>>

-----------------------------------------------------------------------------
(* JavaScript values that reach Number(), arithmetic and JSON *)

Num(n) == <<"num", n>>
Inf == <<"inf", 0>>
NaN == <<"nan", 0>>
JsUndef == <<"undef", 0>>
JsNull == <<"null", 0>>
NumStr(n) == <<"numstr", n>>   \* a string such as "2"
BadStr == <<"badstr", 0>>      \* a string such as "abc"
EmptyStr == <<"empty", 0>>     \* the string ""

(* Number(v) *)
Number(v) ==
  CASE v[1] = "num" -> v
    [] v[1] = "inf" -> Inf
    [] v[1] = "numstr" -> Num(v[2])
    [] v[1] = "null" -> Num(0)
    [] v[1] = "empty" -> Num(0)
    [] OTHER -> NaN

(* v || 0: NaN, 0, null, undefined and "" are falsy *)
NumOr0(v) == IF v \in {NaN, Num(0), JsNull, JsUndef, EmptyStr} THEN Num(0) ELSE v

(* a * b on numbers (operands are converted with Number first) *)
JsMul(a, b) ==
  LET x == Number(a)
      y == Number(b)
  IN CASE x = NaN \/ y = NaN -> NaN
       [] x = Inf /\ y = Inf -> Inf
       [] x = Inf -> IF y[2] = 0 THEN NaN ELSE Inf
       [] y = Inf -> IF x[2] = 0 THEN NaN ELSE Inf
       [] OTHER -> Num(x[2] * y[2])

(* a + b on numbers *)
JsAdd(a, b) ==
  CASE a = NaN \/ b = NaN -> NaN
    [] a = Inf \/ b = Inf -> Inf
    [] OTHER -> Num(a[2] + b[2])

isFinite(v) == v[1] = "num"

(* typeof v === "number" *)
IsNumberType(v) == v[1] \in {"num", "inf", "nan"}

(* JSON.stringify of a number: Infinity and NaN are written as null *)
JsonNum(v) == IF v = Inf \/ v = NaN THEN JsNull ELSE v

-----------------------------------------------------------------------------
(* Vectors, JSON texts of vectors, uploads *)

Zero == [x |-> 0, y |-> 0, z |-> 0]
V1 == [x |-> 1, y |-> 2, z |-> 3]
V2 == [x |-> 4, y |-> 5, z |-> 6]

(* the JSON value null, and v || d on a vector *)
NullVec == [null |-> TRUE]

(* a variant of VecOr that keeps the null *)
VecOr_Keep(v, d) == v

VecOr(v, d) == IF v = NullVec THEN d ELSE v

AbsentText == [kind |-> "absent", val |-> Zero]
InvalidText == [kind |-> "invalid", val |-> Zero]
JsonText(v) == [kind |-> "json", val |-> v]

(* let obj = {0,0,0}; try { if (text) obj = JSON.parse(text) } catch {} *)
ParseVecOrDefault(text) == IF text.kind = "json" THEN text.val ELSE Zero

(* path.extname(file.originalname) || "" *)
extname(file) == file.originalname[2]

(* a variant of ModelFileName that loses the extension *)
ModelFileName_NoExt(ext) == <<"modelo", "">>

ModelFileName(ext) == <<"modelo", ext>>

(* new Date().toISOString().slice(0, 10) and new Date().toISOString() *)
Today == "today"
Now == "now"

-----------------------------------------------------------------------------
(* Responses *)

Resp(status, ok, body) == [status |-> status, ok |-> ok, body |-> body]

NoBody == [none |-> TRUE]

NoResp == Resp(0, FALSE, NoBody)

Err(status) == Resp(status, FALSE, NoBody)

-----------------------------------------------------------------------------
(* Records shared by the variants *)

(* partsMeta: a set of entries, at most one per key *)
MetaOf(pm, key) == {e \in pm : e.key = key}

(* currentMeta[key] = { name: name !== undefined ? name : oldMeta.name || "", ... } *)
MergePartMeta(pm, key, r) ==
  LET old == MetaOf(pm, key)
      oldv(f) == IF old = {} THEN Undef ELSE (CHOOSE e \in old : TRUE)[f]
      pick(new, f, dflt) == IF new # Undef THEN new ELSE StrOr(oldv(f), dflt)
  IN (pm \ old) \cup
       {[key |-> key,
         name |-> pick(r.name, "name", ""),
         notes |-> pick(r.notes, "notes", ""),
         color |-> pick(r.color, "color", "#22c55e"),
         materialPreset |-> pick(r.materialPreset, "materialPreset", "plastic")]}

(* items.map(it => ({concepto, cantidad: Number(..) || 0, precio: ..., link})) *)
NormalizeItem(it) ==
  [concepto |-> StrOr(it.concepto, ""),
   cantidad |-> NumOr0(Number(it.cantidad)),
   precio |-> NumOr0(Number(it.precio)),
   link |-> StrOr(it.link, "")]

NormalizeItems(items) == [i \in 1..Len(items) |-> NormalizeItem(items[i])]

(* normalizedItems.reduce((acc, it) => acc + it.cantidad * it.precio, 0) *)
RECURSIVE SumItems(_)
SumItems(items) ==
  IF items = <<>> THEN Num(0)
  ELSE JsAdd(SumItems(SubSeq(items, 1, Len(items) - 1)),
             JsMul(items[Len(items)].cantidad, items[Len(items)].precio))

(* let computedTotal = reduce(...); if (!isFinite(computedTotal)) computedTotal = 0 *)
ComputedTotal(items) ==
  LET t == SumItems(items) IN IF isFinite(t) THEN t ELSE Num(0)

(* JSON.stringify of the normalized items, as both variants persist them *)
JsonItems(items) ==
  [i \in 1..Len(items) |->
     [items[i] EXCEPT !.cantidad = JsonNum(@), !.precio = JsonNum(@)]]

(* One row of the sheet; the cells of a missing key are undefined *)
Row(concepto, cantidad, precio, importe) ==
  [Concepto |-> concepto, Cantidad |-> cantidad, Precio |-> precio,
   Importe |-> importe]

EmptyRow == Row(Undef, JsUndef, JsUndef, JsUndef)

-----------------------------------------------------------------------------
(* Filesystem variant: public/<id>/{scene.json, modelo.ext, cotizacion.json} *)

FsSt == [scene |-> fsScene, files |-> fsFiles, quote |-> fsQuote]

Out(st, resp) == [st |-> st, resp |-> resp]

(* readScene(folder): null when scene.json does not exist *)
readScene(st, folder) ==
  IF st.scene[folder] = None THEN None
  ELSE LET sceneDoc == Get(st.scene[folder])
       IN Some([id |-> folder,
                name |-> IF sceneDoc.projectName = <<>> THEN folder
                         ELSE sceneDoc.projectName,
                author |-> StrOr(sceneDoc.author, ""),
                date |-> StrOr(sceneDoc.date, ""),
                position |-> VecOr(sceneDoc.position, Zero),
                rotation |-> VecOr(sceneDoc.rotation, Zero),
                passwordHash |-> sceneDoc.passwordHash,
                modelFile |-> sceneDoc.modelFile,
                modelUrl |-> IF sceneDoc.modelFile = None THEN None
                             ELSE Some(<<folder, Get(sceneDoc.modelFile)>>),
                pendingNotes |-> StrOr(sceneDoc.pendingNotes, ""),
                partsMeta |-> sceneDoc.partsMeta])

(* const { _raw, passwordHash, ...view } = scene *)
SceneView(scene) ==
  [id |-> scene.id, name |-> scene.name, author |-> scene.author,
   date |-> scene.date, position |-> scene.position,
   rotation |-> scene.rotation, modelFile |-> scene.modelFile,
   modelUrl |-> scene.modelUrl, pendingNotes |-> scene.pendingNotes,
   partsMeta |-> scene.partsMeta]

(* writeScene(folder, sceneDoc) *)
writeScene(st, folder, sceneDoc) ==
  [st EXCEPT !.scene[folder] = Some(sceneDoc)]

(* a variant of FsMoveUpload that loses the uploaded file *)
FsMoveUpload_Lost(files, name, file) == files

(* fs.renameSync(req.file.path, path.join(dir, name)): replaces a file of that name *)
FsMoveUpload(files, name, file) ==
  {f \in files : f.name # name} \cup {[name |-> name, data |-> file.data]}

(* the response after a write: readScene again and strip the private fields *)
FsProjectResp(st, folder) ==
  Resp(200, TRUE, [project |-> SceneView(Get(readScene(st, folder)))])

(* a variant of CreateFieldsMissing that does not require the password *)
CreateFieldsMissing_NoPassword(r) == r.projectName = <<>> \/ r.file = None

(* if (!projectName || !password || !req.file) *)
CreateFieldsMissing(r) ==
  r.projectName = <<>> \/ Falsy(r.password) \/ r.file = None

(* POST /api/projects *)
FsPostProject(st, r) ==
  IF CreateFieldsMissing(r)
  THEN Out(st, Err(400))
  ELSE LET folderSlug == slugify(r.projectName)
           modelFileName == ModelFileName(extname(Get(r.file)))
           st1 == [st EXCEPT !.files[folderSlug] =
                                FsMoveUpload(@, modelFileName, Get(r.file))]
           sceneDoc == [projectName |-> r.projectName,
                        author |-> StrOr(r.author, ""),
                        date |-> StrOr(r.date, Today),
                        passwordHash |-> hashPassword(r.password),
                        position |-> ParseVecOrDefault(r.position),
                        rotation |-> ParseVecOrDefault(r.rotation),
                        modelFile |-> Some(modelFileName),
                        pendingNotes |-> "",
                        partsMeta |-> {}]
       IN Out(writeScene(st1, folderSlug, sceneDoc),
              Resp(201, TRUE, [projectId |-> folderSlug,
                               modelFile |-> modelFileName]))

(* Inputs: project names, and the ids they slugify to *)
Names == {<<"A">>, <<"a">>, <<"B">>}

Ids == {slugify(n) : n \in Names}

(* the elements of a finite set in some fixed order *)
RECURSIVE SeqOf(_)
SeqOf(S) ==
  IF S = {} THEN <<>>
  ELSE LET x == CHOOSE y \in S : TRUE IN <<x>> \o SeqOf(S \ {x})

(* a variant of FsGetProjects that does not drop the folders without scene.json *)
FsGetProjects_Dirs(st) ==
  LET dirs == SeqOf({d \in Ids : st.scene[d] # None \/ st.files[d] # {}
                                  \/ st.quote[d] # None})
      blank(d) == [id |-> d, name |-> d, author |-> "", date |-> "",
                   position |-> Zero, rotation |-> Zero, modelFile |-> None,
                   modelUrl |-> None, pendingNotes |-> "", partsMeta |-> {}]
  IN Out(st, Resp(200, TRUE,
                  [projects |->
                     [i \in 1..Len(dirs) |->
                        IF readScene(st, dirs[i]) = None THEN blank(dirs[i])
                        ELSE SceneView(Get(readScene(st, dirs[i])))]]))

(* GET /api/projects: one entry per folder that has a scene.json *)
FsGetProjects(st) ==
  LET dirs == SeqOf({d \in Ids : st.scene[d] # None \/ st.files[d] # {}
                                  \/ st.quote[d] # None})
      scenes == SelectSeq([i \in 1..Len(dirs) |-> readScene(st, dirs[i])],
                          LAMBDA sc : sc # None)
  IN Out(st, Resp(200, TRUE,
                  [projects |-> [i \in 1..Len(scenes) |-> SceneView(Get(scenes[i]))]]))

(* GET /api/projects/:id *)
FsGetProject(st, r) ==
  LET scene == readScene(st, r.id)
  IN IF scene = None THEN Out(st, Err(404))
     ELSE Out(st, Resp(200, TRUE, [project |-> SceneView(Get(scene))]))

(* a variant of FsPutTransform that never compares the password hash *)
FsPutTransform_NoCheck(st, r) ==
  LET scene == readScene(st, r.id)
  IN IF scene = None THEN Out(st, Err(404))
     ELSE LET sceneDoc == Get(st.scene[r.id])
              position == IF r.position # None THEN Get(r.position)
                          ELSE Get(scene).position
              rotation == IF r.rotation # None THEN Get(r.rotation)
                          ELSE Get(scene).rotation
              st1 == writeScene(st, r.id, [sceneDoc EXCEPT !.position = position,
                                                           !.rotation = rotation])
          IN Out(st1, FsProjectResp(st1, r.id))

(* PUT /api/projects/:id/transform *)
FsPutTransform(st, r) ==
  LET scene == readScene(st, r.id)
  IN IF scene = None THEN Out(st, Err(404))
     ELSE IF ~Falsy(r.password)
             /\ hashPassword(r.password) # Get(scene).passwordHash
     THEN Out(st, Err(403))
     ELSE LET sceneDoc == Get(st.scene[r.id])
              position == IF r.position # None THEN Get(r.position)
                          ELSE Get(scene).position
              rotation == IF r.rotation # None THEN Get(r.rotation)
                          ELSE Get(scene).rotation
              st1 == writeScene(st, r.id, [sceneDoc EXCEPT !.position = position,
                                                           !.rotation = rotation])
          IN Out(st1, FsProjectResp(st1, r.id))

(* PUT /api/projects/:id/model *)
FsPutModel(st, r) ==
  LET scene == readScene(st, r.id)
  IN IF scene = None THEN Out(st, Err(404))
     ELSE IF r.file = None THEN Out(st, Err(400))
     ELSE LET old == Get(scene).modelFile
              kept == IF old = None THEN st.files[r.id]
                      ELSE {f \in st.files[r.id] : f.name # Get(old)}
              modelFileName == ModelFileName(extname(Get(r.file)))
              sceneDoc == Get(st.scene[r.id])
              st1 == writeScene(
                       [st EXCEPT !.files[r.id] =
                                     FsMoveUpload(kept, modelFileName, Get(r.file))],
                       r.id, [sceneDoc EXCEPT !.modelFile = Some(modelFileName)])
          IN Out(st1, FsProjectResp(st1, r.id))

(* PUT /api/projects/:id/rename *)
FsPutRename(st, r) ==
  LET scene == readScene(st, r.id)
  IN IF scene = None THEN Out(st, Err(404))
     ELSE IF r.name = <<>> \/ Falsy(r.password) THEN Out(st, Err(400))
     ELSE IF hashPassword(r.password) # Get(scene).passwordHash
     THEN Out(st, Err(403))
     ELSE LET sceneDoc == Get(st.scene[r.id])
              st1 == writeScene(st, r.id, [sceneDoc EXCEPT !.projectName = r.name])
          IN Out(st1, FsProjectResp(st1, r.id))

(* PUT /api/projects/:id/notes *)
FsPutNotes(st, r) ==
  LET scene == readScene(st, r.id)
  IN IF scene = None THEN Out(st, Err(404))
     ELSE IF r.notes = Undef \/ Falsy(r.password) THEN Out(st, Err(400))
     ELSE IF hashPassword(r.password) # Get(scene).passwordHash
     THEN Out(st, Err(403))
     ELSE LET sceneDoc == Get(st.scene[r.id])
              st1 == writeScene(st, r.id, [sceneDoc EXCEPT !.pendingNotes = r.notes])
          IN Out(st1, FsProjectResp(st1, r.id))

(* PUT /api/projects/:id/parts-meta *)
FsPutPartsMeta(st, r) ==
  LET scene == readScene(st, r.id)
  IN IF scene = None THEN Out(st, Err(404))
     ELSE IF r.partId = None \/ Falsy(r.password) THEN Out(st, Err(400))
     ELSE IF hashPassword(r.password) # Get(scene).passwordHash
     THEN Out(st, Err(403))
     ELSE LET sceneDoc == Get(st.scene[r.id])
              key == Get(r.partId).s
              st1 == writeScene(st, r.id,
                       [sceneDoc EXCEPT !.partsMeta = MergePartMeta(@, key, r)])
          IN Out(st1, FsProjectResp(st1, r.id))

(* a variant of FsDeleteProject that does not compare the password hash *)
FsDeleteProject_NoCompare(st, r) ==
  LET scene == readScene(st, r.id)
  IN IF scene = None THEN Out(st, Err(404))
     ELSE IF Falsy(r.password) THEN Out(st, Err(400))
     ELSE Out([st EXCEPT !.scene[r.id] = None, !.files[r.id] = {},
                         !.quote[r.id] = None],
              Resp(200, TRUE, NoBody))

(* DELETE /api/projects/:id: fs.rmSync(projectDir, {recursive, force}) *)
FsDeleteProject(st, r) ==
  LET scene == readScene(st, r.id)
  IN IF scene = None THEN Out(st, Err(404))
     ELSE IF Falsy(r.password) THEN Out(st, Err(400))
     ELSE IF hashPassword(r.password) # Get(scene).passwordHash
     THEN Out(st, Err(403))
     ELSE Out([st EXCEPT !.scene[r.id] = None, !.files[r.id] = {},
                         !.quote[r.id] = None],
              Resp(200, TRUE, NoBody))

(* GET /api/quotes/:id: reads cotizacion.json *)
FsGetQuote(st, r) ==
  IF st.quote[r.id] = None THEN Out(st, Err(404))
  ELSE Out(st, Resp(200, TRUE, [quote |-> Get(st.quote[r.id])]))

(* PUT /api/quotes/:id: writes cotizacion.json *)
FsPutQuote(st, r) ==
  LET scene == readScene(st, r.id)
  IN IF scene = None THEN Out(st, Err(404))
     ELSE IF Falsy(r.password) \/ r.items = None THEN Out(st, Err(400))
     ELSE IF hashPassword(r.password) # Get(scene).passwordHash
     THEN Out(st, Err(403))
     ELSE LET normalizedItems == NormalizeItems(Get(r.items))
              computedTotal == ComputedTotal(normalizedItems)
              quoteDoc == [projectId |-> r.id,
                           projectName |-> Get(scene).name,
                           date |-> Now,
                           items |-> JsonItems(normalizedItems),
                           total |-> JsonNum(IF IsNumberType(r.total) THEN r.total
                                             ELSE computedTotal)]
          IN Out([st EXCEPT !.quote[r.id] = Some(quoteDoc)],
                 Resp(200, TRUE, [quote |-> quoteDoc]))

(* buildQuoteWorkbook of the filesystem variant *)
FsBuildQuoteWorkbook(quoteDoc) ==
  [i \in 1..Len(quoteDoc.items) |->
     Row(quoteDoc.items[i].concepto, quoteDoc.items[i].cantidad,
         quoteDoc.items[i].precio,
         JsMul(quoteDoc.items[i].cantidad, quoteDoc.items[i].precio))]
  \o <<EmptyRow, Row("TOTAL", EmptyStr, EmptyStr, quoteDoc.total)>>

(* GET /api/quotes/:id/excel *)
FsGetExcel(st, r) ==
  IF st.quote[r.id] = None THEN Out(st, Err(404))
  ELSE Out(st, Resp(200, TRUE,
                    [sheet |-> FsBuildQuoteWorkbook(Get(st.quote[r.id]))]))

-----------------------------------------------------------------------------
(* Supabase variant: tables projects and quotes, storage bucket "models".  *)
(* projects.id is the table's key (an insert of an existing id is an       *)
(* error); quotes has one row per project_id (the upsert's conflict        *)
(* target) and no foreign key to projects.                                 *)
(* A fault f names the backend call that fails while the request is        *)
(* handled: "remove" / "upload" (storage), "lookup" (the select), "db"     *)
(* (the insert, update, upsert or delete), or "none".                      *)

Faults == {"none", "remove", "upload", "lookup", "db"}

SbSt == [projects |-> sbProjects, bucket |-> sbBucket, quotes |-> sbQuotes]

(* projectRowToView(row) *)
projectRowToView(row) ==
  [id |-> row.id, name |-> row.name, author |-> StrOr(row.author, ""),
   date |-> StrOr(row.project_date, ""),
   position |-> VecOr(row.position, Zero),
   rotation |-> VecOr(row.rotation, Zero), modelFile |-> row.model_filename,
   modelUrl |-> row.model_path, pendingNotes |-> StrOr(row.pending_notes, ""),
   partsMeta |-> row.parts_meta]

(* getProjectById(id): .single() gives PGRST116 unless exactly one row matches *)
getProjectById(st, id, f) ==
  LET rows == {row \in st.projects : row.id = id}
  IN IF f = "lookup" THEN [error |-> "other", data |-> None]
     ELSE IF Cardinality(rows) # 1 THEN [error |-> "PGRST116", data |-> None]
     ELSE [error |-> "none", data |-> Some(CHOOSE row \in rows : TRUE)]

(* the 404 / 500 answers to a failed lookup *)
LookupErr(got) == IF got.error = "PGRST116" THEN Err(404) ELSE Err(500)

(* storage.upload(path, data, {upsert: true}) *)
SbUpload(bucket, path, file) ==
  {o \in bucket : o.path # path} \cup {[path |-> path, data |-> file.data]}

(* storage.remove([path]) *)
SbRemove(bucket, path) == {o \in bucket : o.path # path}

(* a variant of SbUpdateRow that also blanks the author column *)
SbUpdateRow_DropAuthor(projects, id, patch) ==
  {IF row.id = id
   THEN [c \in DOMAIN row |-> IF c \in DOMAIN patch THEN patch[c]
                              ELSE IF c = "author" THEN "" ELSE row[c]]
   ELSE row : row \in projects}

(* from("projects").update(patch).eq("id", id).select().single() *)
SbUpdateRow(projects, id, patch) ==
  {IF row.id = id
   THEN [c \in DOMAIN row |-> IF c \in DOMAIN patch THEN patch[c] ELSE row[c]]
   ELSE row : row \in projects}

(* the response after an update: the updated row as a view *)
SbProjectResp(st, id) ==
  Resp(200, TRUE,
       [project |-> projectRowToView(CHOOSE row \in st.projects : row.id = id)])

(* POST /api/projects *)
SbPostProject(st, r, f) ==
  IF CreateFieldsMissing(r)
  THEN Out(st, Err(400))
  ELSE LET folderSlug == slugify(r.projectName)
           modelFileName == ModelFileName(extname(Get(r.file)))
           objectPath == <<folderSlug, modelFileName>>
           st1 == [st EXCEPT !.bucket = SbUpload(@, objectPath, Get(r.file))]
           row == [id |-> folderSlug,
                   name |-> r.projectName,
                   author |-> StrOr(r.author, ""),
                   project_date |-> StrOr(r.date, Today),
                   password_hash |-> hashPassword(r.password),
                   position |-> ParseVecOrDefault(r.position),
                   rotation |-> ParseVecOrDefault(r.rotation),
                   model_path |-> Some(objectPath),
                   model_filename |-> Some(modelFileName),
                   pending_notes |-> "",
                   parts_meta |-> {}]
       IN IF f = "upload" THEN Out(st, Err(500))
          ELSE IF f = "db" \/ \E old \in st.projects : old.id = folderSlug
          THEN Out(st1, Err(500))
          ELSE Out([st1 EXCEPT !.projects = @ \cup {row}],
                   Resp(201, TRUE, [projectId |-> folderSlug,
                                    project |-> projectRowToView(row)]))

(* GET /api/projects *)
SbGetProjects(st, f) ==
  IF f = "lookup" THEN Out(st, Err(500))
  ELSE LET data == SeqOf(st.projects)
       IN Out(st, Resp(200, TRUE,
                       [projects |-> [i \in 1..Len(data) |->
                                        projectRowToView(data[i])]]))

(* GET /api/projects/:id *)
SbGetProject(st, r, f) ==
  LET got == getProjectById(st, r.id, f)
  IN IF got.error # "none" THEN Out(st, LookupErr(got))
     ELSE Out(st, Resp(200, TRUE, [project |-> projectRowToView(Get(got.data))]))

(* PUT /api/projects/:id/transform *)
SbPutTransform(st, r, f) ==
  LET got == getProjectById(st, r.id, f)
  IN IF got.error # "none" THEN Out(st, LookupErr(got))
     ELSE IF ~Falsy(r.password)
             /\ hashPassword(r.password) # Get(got.data).password_hash
     THEN Out(st, Err(403))
     ELSE IF f = "db" THEN Out(st, Err(500))
     ELSE LET newPosition == IF r.position # None THEN Get(r.position)
                             ELSE VecOr(Get(got.data).position, Zero)
              newRotation == IF r.rotation # None THEN Get(r.rotation)
                             ELSE VecOr(Get(got.data).rotation, Zero)
              patch == [position |-> newPosition, rotation |-> newRotation]
              st1 == [st EXCEPT !.projects = SbUpdateRow(@, r.id, patch)]
          IN Out(st1, SbProjectResp(st1, r.id))

(* PUT /api/projects/:id/model *)
SbPutModel(st, r, f) ==
  IF r.file = None THEN Out(st, Err(400))
  ELSE LET got == getProjectById(st, r.id, f)
       IN IF got.error # "none" THEN Out(st, LookupErr(got))
          ELSE LET project == Get(got.data)
                   st1 == IF project.model_path # None /\ f # "remove"
                          THEN [st EXCEPT !.bucket =
                                             SbRemove(@, Get(project.model_path))]
                          ELSE st
                   modelFileName == ModelFileName(extname(Get(r.file)))
                   objectPath == <<r.id, modelFileName>>
                   st2 == [st1 EXCEPT !.bucket = SbUpload(@, objectPath, Get(r.file))]
                   patch == [model_path |-> Some(objectPath),
                             model_filename |-> Some(modelFileName)]
                   st3 == [st2 EXCEPT !.projects = SbUpdateRow(@, r.id, patch)]
               IN IF f = "upload" THEN Out(st1, Err(500))
                  ELSE IF f = "db" THEN Out(st2, Err(500))
                  ELSE Out(st3, SbProjectResp(st3, r.id))

(* PUT /api/projects/:id/rename *)
SbPutRename(st, r, f) ==
  IF r.name = <<>> \/ Falsy(r.password) THEN Out(st, Err(400))
  ELSE LET got == getProjectById(st, r.id, f)
       IN IF got.error # "none" THEN Out(st, LookupErr(got))
          ELSE IF hashPassword(r.password) # Get(got.data).password_hash
          THEN Out(st, Err(403))
          ELSE IF f = "db" THEN Out(st, Err(500))
          ELSE LET patch == [name |-> r.name]
                   st1 == [st EXCEPT !.projects = SbUpdateRow(@, r.id, patch)]
               IN Out(st1, SbProjectResp(st1, r.id))

(* PUT /api/projects/:id/notes *)
SbPutNotes(st, r, f) ==
  IF r.notes = Undef \/ Falsy(r.password) THEN Out(st, Err(400))
  ELSE LET got == getProjectById(st, r.id, f)
       IN IF got.error # "none" THEN Out(st, LookupErr(got))
          ELSE IF hashPassword(r.password) # Get(got.data).password_hash
          THEN Out(st, Err(403))
          ELSE IF f = "db" THEN Out(st, Err(500))
          ELSE LET patch == [pending_notes |-> r.notes]
                   st1 == [st EXCEPT !.projects = SbUpdateRow(@, r.id, patch)]
               IN Out(st1, SbProjectResp(st1, r.id))

(* PUT /api/projects/:id/parts-meta *)
SbPutPartsMeta(st, r, f) ==
  IF r.partId = None \/ Falsy(r.password) THEN Out(st, Err(400))
  ELSE LET got == getProjectById(st, r.id, f)
       IN IF got.error # "none" THEN Out(st, LookupErr(got))
          ELSE IF hashPassword(r.password) # Get(got.data).password_hash
          THEN Out(st, Err(403))
          ELSE IF f = "db" THEN Out(st, Err(500))
          ELSE LET key == Get(r.partId).s
                   currentMeta == MergePartMeta(Get(got.data).parts_meta, key, r)
                   patch == [parts_meta |-> currentMeta]
                   st1 == [st EXCEPT !.projects = SbUpdateRow(@, r.id, patch)]
               IN Out(st1, SbProjectResp(st1, r.id))

(* DELETE /api/projects/:id *)
SbDeleteProject(st, r, f) ==
  IF Falsy(r.password) THEN Out(st, Err(400))
  ELSE LET got == getProjectById(st, r.id, f)
       IN IF got.error # "none" THEN Out(st, LookupErr(got))
          ELSE IF hashPassword(r.password) # Get(got.data).password_hash
          THEN Out(st, Err(403))
          ELSE LET project == Get(got.data)
                   st1 == IF project.model_path # None /\ f # "remove"
                          THEN [st EXCEPT !.bucket =
                                             SbRemove(@, Get(project.model_path))]
                          ELSE st
               IN IF f = "db" THEN Out(st1, Err(500))
                  ELSE Out([st1 EXCEPT !.projects =
                                          {row \in @ : row.id # r.id}],
                           Resp(200, TRUE, NoBody))

(* from("quotes").select("*").eq("project_id", id).single() *)
SbSelectQuote(st, id, f) ==
  LET rows == {q \in st.quotes : q.project_id = id}
  IN IF f = "lookup" THEN [error |-> "other", data |-> None]
     ELSE IF Cardinality(rows) # 1 THEN [error |-> "PGRST116", data |-> None]
     ELSE [error |-> "none", data |-> Some(CHOOSE q \in rows : TRUE)]

(* { projectId: data.project_id, items: data.items || [], total: data.total || 0 } *)
SbQuoteView(data) ==
  [projectId |-> data.project_id, items |-> data.items,
   total |-> NumOr0(data.total)]

(* GET /api/quotes/:id *)
SbGetQuote(st, r, f) ==
  LET got == SbSelectQuote(st, r.id, f)
  IN IF got.error # "none" THEN Out(st, LookupErr(got))
     ELSE Out(st, Resp(200, TRUE, [quote |-> SbQuoteView(Get(got.data))]))

(* a variant of SbUpsertQuote that inserts without replacing *)
SbUpsertQuote_Insert(quotes, row) == quotes \cup {row}

(* from("quotes").upsert(row, { onConflict: "project_id" }) *)
SbUpsertQuote(quotes, row) ==
  {q \in quotes : q.project_id # row.project_id} \cup {row}

(* PUT /api/quotes/:id *)
SbPutQuote(st, r, f) ==
  IF Falsy(r.password) \/ r.items = None THEN Out(st, Err(400))
  ELSE LET got == getProjectById(st, r.id, f)
       IN IF got.error # "none" THEN Out(st, LookupErr(got))
          ELSE IF hashPassword(r.password) # Get(got.data).password_hash
          THEN Out(st, Err(403))
          ELSE IF f = "db" THEN Out(st, Err(500))
          ELSE LET normalizedItems == NormalizeItems(Get(r.items))
                   computedTotal == ComputedTotal(normalizedItems)
                   finalTotal == IF IsNumberType(r.total) /\ isFinite(r.total)
                                 THEN r.total ELSE computedTotal
                   row == [project_id |-> r.id,
                           items |-> JsonItems(normalizedItems),
                           total |-> JsonNum(finalTotal),
                           updated_at |-> Now]
               IN Out([st EXCEPT !.quotes = SbUpsertQuote(@, row)],
                      Resp(200, TRUE, [quote |-> SbQuoteView(row)]))

(* a variant of SbBuildQuoteWorkbook without the empty row before TOTAL *)
SbBuildQuoteWorkbook_NoBlank(quoteDoc) ==
  [i \in 1..Len(quoteDoc.items) |->
     LET cantidad == NumOr0(Number(quoteDoc.items[i].cantidad))
         precio == NumOr0(Number(quoteDoc.items[i].precio))
     IN Row(quoteDoc.items[i].concepto, cantidad, precio, JsMul(cantidad, precio))]
  \o <<Row("TOTAL", EmptyStr, EmptyStr, NumOr0(Number(quoteDoc.total)))>>

(* buildQuoteWorkbook of the Supabase variant *)
SbBuildQuoteWorkbook(quoteDoc) ==
  [i \in 1..Len(quoteDoc.items) |->
     LET cantidad == NumOr0(Number(quoteDoc.items[i].cantidad))
         precio == NumOr0(Number(quoteDoc.items[i].precio))
     IN Row(quoteDoc.items[i].concepto, cantidad, precio, JsMul(cantidad, precio))]
  \o <<EmptyRow, Row("TOTAL", EmptyStr, EmptyStr, NumOr0(Number(quoteDoc.total)))>>

(* GET /api/quotes/:id/excel *)
SbGetExcel(st, r, f) ==
  LET got == SbSelectQuote(st, r.id, f)
  IN IF got.error # "none" THEN Out(st, LookupErr(got))
     ELSE Out(st, Resp(200, TRUE,
                       [sheet |-> SbBuildQuoteWorkbook(SbQuoteView(Get(got.data)))]))

-----------------------------------------------------------------------------
(* Requests *)
(* Project "a" (the slug of the names "A" and "a") is addressed by the     *)
(* full product of the inputs below; project "b" by one well-formed and    *)
(* one password-less request of each kind.                                 *)

Passwords == {"p1", "p2"}

PasswordIn == Passwords \cup {Undef}

Upload(ext, data) == [originalname |-> <<"m", ext>>, data |-> data]

Uploads == {Upload(".glb", "f1"), Upload(".obj", "f2")}

FileIn == {None} \cup {Some(u) : u \in Uploads}

IdA == slugify(<<"A">>)
IdB == slugify(<<"B">>)

(* the (id, password) pairs of the requests *)
Targets == ({IdA} \X PasswordIn) \cup ({IdB} \X {"p1", Undef})

CreateReq(n, p, u, author, date, position, rotation) ==
  [kind |-> "create", projectName |-> n, password |-> p, file |-> u,
   author |-> author, date |-> date, position |-> position,
   rotation |-> rotation]

CreateReqs ==
  {CreateReq(n, p, Some(u), Undef, Undef, InvalidText, AbsentText) :
     n \in {<<"A">>, <<"a">>}, p \in Passwords, u \in Uploads}
  \cup {CreateReq(<<"A">>, "p1", Some(Upload(".glb", "f2")), "ann", "d1",
                  JsonText(V1), JsonText(V2)),
        CreateReq(<<"B">>, "p1", Some(Upload(".glb", "f1")), Undef, Undef,
                  JsonText(NullVec), AbsentText),
        CreateReq(<<>>, "p1", Some(Upload(".glb", "f1")), Undef, Undef,
                  AbsentText, AbsentText),
        CreateReq(<<"A">>, Undef, Some(Upload(".glb", "f1")), Undef, Undef,
                  AbsentText, AbsentText),
        CreateReq(<<"A">>, "p1", None, Undef, Undef, AbsentText, AbsentText)}

IdReqs(kind) == {[kind |-> kind, id |-> id] : id \in Ids}

TransformReqs ==
  {[kind |-> "transform", id |-> t[1], password |-> t[2], position |-> v[1],
    rotation |-> v[2]] :
     t \in Targets, v \in {<<Some(V2), None>>, <<None, Some(V1)>>}}

ModelReqs ==
  {[kind |-> "model", id |-> id, password |-> Undef, file |-> u] :
     id \in Ids, u \in FileIn}

RenameReqs ==
  {[kind |-> "rename", id |-> t[1], password |-> t[2], name |-> n] :
     t \in Targets, n \in {<<>>, <<"B">>}}

NotesReqs ==
  {[kind |-> "notes", id |-> t[1], password |-> t[2], notes |-> n] :
     t \in Targets, n \in {Undef, "", "n1"}}

PartIds == {None, Some([t |-> "num", s |-> "1"]), Some([t |-> "str", s |-> "1"]),
            Some([t |-> "num", s |-> "2"])}

PartPatches ==
  {[name |-> "bolt", notes |-> Undef, color |-> "#fff", materialPreset |-> Undef],
   [name |-> "", notes |-> "loose", color |-> Undef, materialPreset |-> "metal"],
   [name |-> Undef, notes |-> Undef, color |-> "", materialPreset |-> Undef]}

PartsMetaReq(id, p, k, m) ==
  [kind |-> "partsMeta", id |-> id, password |-> p, partId |-> k,
   name |-> m.name, notes |-> m.notes, color |-> m.color,
   materialPreset |-> m.materialPreset]

PartsMetaReqs ==
  {PartsMetaReq(IdA, "p1", k, m) : k \in PartIds, m \in PartPatches}
  \cup {PartsMetaReq(t[1], t[2], k, CHOOSE m \in PartPatches : m.name = "bolt") :
          t \in Targets, k \in {None, Some([t |-> "num", s |-> "1"])}}

DeleteReqs ==
  {[kind |-> "delete", id |-> t[1], password |-> t[2]] : t \in Targets}

ItemInputs ==
  {[concepto |-> "c1", cantidad |-> Num(2), precio |-> NumStr(3), link |-> "l1"],
   [concepto |-> Undef, cantidad |-> Inf, precio |-> BadStr, link |-> Undef]}

RECURSIVE SeqsUpTo(_, _)
SeqsUpTo(S, n) ==
  IF n = 0 THEN {<<>>}
  ELSE LET shorter == SeqsUpTo(S, n - 1)
       IN shorter \cup {Append(q, x) : q \in shorter, x \in S}

TotalIn == {JsUndef, Num(7), Inf}

(* the (items, total) bodies: every total with the lists of at most one item *)
QuoteBodies ==
  {<<Some(q), t>> : q \in SeqsUpTo(ItemInputs, 1), t \in TotalIn}
  \cup {<<Some(q), JsUndef>> : q \in SeqsUpTo(ItemInputs, MaxItems)}
  \cup {<<None, JsUndef>>}

PutQuoteReq(id, p, b) ==
  [kind |-> "putQuote", id |-> id, password |-> p, items |-> b[1], total |-> b[2]]

PutQuoteReqs ==
  {PutQuoteReq(IdA, "p1", b) : b \in QuoteBodies}
  \cup {PutQuoteReq(t[1], t[2], b) :
          t \in Targets,
          b \in {<<None, JsUndef>>, <<Some(<<CHOOSE i \in ItemInputs : i.concepto = "c1">>), JsUndef>>}}

-----------------------------------------------------------------------------
(* The state machine: each request is answered by both variants *)

Init ==
  /\ fsScene = [id \in Ids |-> None]
  /\ fsFiles = [id \in Ids |-> {}]
  /\ fsQuote = [id \in Ids |-> None]
  /\ sbProjects = {}
  /\ sbBucket = {}
  /\ sbQuotes = {}
  /\ req = [kind |-> "none"]
  /\ fsResp = NoResp
  /\ sbResp = NoResp
  /\ faults = [allowed |-> FALSE, now |-> "none"]
  /\ steps = 0

InitFaulty ==
  /\ fsScene = [id \in Ids |-> None]
  /\ fsFiles = [id \in Ids |-> {}]
  /\ fsQuote = [id \in Ids |-> None]
  /\ sbProjects = {}
  /\ sbBucket = {}
  /\ sbQuotes = {}
  /\ req = [kind |-> "none"]
  /\ fsResp = NoResp
  /\ sbResp = NoResp
  /\ faults = [allowed |-> TRUE, now |-> "none"]
  /\ steps = 0

(* the failures a request can meet: one of the backend calls its handler   *)
(* makes returns an error                                                  *)
FaultChoices(calls) == IF faults.allowed THEN {"none"} \cup calls ELSE {"none"}

Answer(r, f, fo, so) ==
  /\ steps < MaxSteps
  /\ steps' = steps + 1
  /\ req' = r
  /\ faults' = [faults EXCEPT !.now = f]
  /\ fsScene' = fo.st.scene
  /\ fsFiles' = fo.st.files
  /\ fsQuote' = fo.st.quote
  /\ fsResp' = fo.resp
  /\ sbProjects' = so.st.projects
  /\ sbBucket' = so.st.bucket
  /\ sbQuotes' = so.st.quotes
  /\ sbResp' = so.resp

PostProject ==
  \E r \in CreateReqs, f \in FaultChoices({"upload", "db"}) :
    Answer(r, f, FsPostProject(FsSt, r), SbPostProject(SbSt, r, f))

GetProjects ==
  \E f \in FaultChoices({"lookup"}) :
    Answer([kind |-> "list"], f, FsGetProjects(FsSt), SbGetProjects(SbSt, f))

GetProject ==
  \E r \in IdReqs("get"), f \in FaultChoices({"lookup"}) :
    Answer(r, f, FsGetProject(FsSt, r), SbGetProject(SbSt, r, f))

PutTransform ==
  \E r \in TransformReqs, f \in FaultChoices({"lookup", "db"}) :
    Answer(r, f, FsPutTransform(FsSt, r), SbPutTransform(SbSt, r, f))

PutModel ==
  \E r \in ModelReqs, f \in FaultChoices({"lookup", "remove", "upload", "db"}) :
    Answer(r, f, FsPutModel(FsSt, r), SbPutModel(SbSt, r, f))

PutRename ==
  \E r \in RenameReqs, f \in FaultChoices({"lookup", "db"}) :
    Answer(r, f, FsPutRename(FsSt, r), SbPutRename(SbSt, r, f))

PutNotes ==
  \E r \in NotesReqs, f \in FaultChoices({"lookup", "db"}) :
    Answer(r, f, FsPutNotes(FsSt, r), SbPutNotes(SbSt, r, f))

PutPartsMeta ==
  \E r \in PartsMetaReqs, f \in FaultChoices({"lookup", "db"}) :
    Answer(r, f, FsPutPartsMeta(FsSt, r), SbPutPartsMeta(SbSt, r, f))

DeleteProject ==
  \E r \in DeleteReqs, f \in FaultChoices({"lookup", "remove", "db"}) :
    Answer(r, f, FsDeleteProject(FsSt, r), SbDeleteProject(SbSt, r, f))

GetQuote ==
  \E r \in IdReqs("getQuote"), f \in FaultChoices({"lookup"}) :
    Answer(r, f, FsGetQuote(FsSt, r), SbGetQuote(SbSt, r, f))

PutQuote ==
  \E r \in PutQuoteReqs, f \in FaultChoices({"lookup", "db"}) :
    Answer(r, f, FsPutQuote(FsSt, r), SbPutQuote(SbSt, r, f))

GetExcel ==
  \E r \in IdReqs("excel"), f \in FaultChoices({"lookup"}) :
    Answer(r, f, FsGetExcel(FsSt, r), SbGetExcel(SbSt, r, f))

Next ==
  \/ PostProject
  \/ GetProjects
  \/ GetProject
  \/ PutTransform
  \/ PutModel
  \/ PutRename
  \/ PutNotes
  \/ PutPartsMeta
  \/ DeleteProject
  \/ GetQuote
  \/ PutQuote
  \/ GetExcel

Spec == Init /\ [][Next]_vars

SpecFaulty == InitFaulty /\ [][Next]_vars

-----------------------------------------------------------------------------
(* CORS: the origin option of each variant.  An environment value and an   *)
(* Origin header are texts; an unset variable is the empty text.           *)

(* the position of the first "," of s, 0 when there is none *)
IndexOfComma(s) ==
  IF \E i \in 1..Len(s) : s[i] = ","
  THEN CHOOSE i \in 1..Len(s) : s[i] = "," /\ \A j \in 1..(i - 1) : s[j] # ","
  ELSE 0

(* .split(",") *)
RECURSIVE Split(_)
Split(s) ==
  LET i == IndexOfComma(s)
  IN IF i = 0 THEN <<s>>
     ELSE <<SubSeq(s, 1, i - 1)>> \o Split(SubSeq(s, i + 1, Len(s)))

RECURSIVE TrimStart(_)
TrimStart(s) == IF s # <<>> /\ Head(s) = " " THEN TrimStart(Tail(s)) ELSE s

RECURSIVE TrimEnd(_)
TrimEnd(s) ==
  IF s # <<>> /\ s[Len(s)] = " " THEN TrimEnd(SubSeq(s, 1, Len(s) - 1)) ELSE s

(* a variant of trim that keeps the surrounding blanks *)
trim_Keep(s) == s

(* o.trim() *)
trim(s) == TrimEnd(TrimStart(s))

(* process.env.CORS_ORIGINS || process.env.CORS_ORIGIN || "" *)
rawOrigins(env) ==
  IF env.CORS_ORIGINS # <<>> THEN env.CORS_ORIGINS ELSE env.CORS_ORIGIN

(* rawOrigins.split(",").map((o) => o.trim()).filter(Boolean) *)
allowedOrigins(env) ==
  LET parts == Split(rawOrigins(env))
  IN SelectSeq([i \in 1..Len(parts) |-> trim(parts[i])], LAMBDA o : o # <<>>)

(* the origin callback of the Supabase variant: TRUE is callback(null, true), *)
(* FALSE is callback(new Error("Not allowed by CORS: ...")) *)
SbCorsOrigin(env, origin) ==
  IF origin = None \/ Get(origin) = <<>> THEN TRUE
  ELSE IF Len(allowedOrigins(env)) = 0 THEN TRUE
  ELSE IF \E i \in 1..Len(allowedOrigins(env)) : allowedOrigins(env)[i] = Get(origin)
  THEN TRUE
  ELSE FALSE

(* origin: process.env.CORS_ORIGIN || "*" of the filesystem variants *)
FsCorsOrigin(env) == IF env.CORS_ORIGIN # <<>> THEN env.CORS_ORIGIN ELSE <<"*">>

-----------------------------------------------------------------------------
(* Inputs of the pure functions *)

MaxName == 2
MaxRaw == 3

(* the texts over the alphabet S of length at most n *)
RECURSIVE TextsUpTo(_, _)
TextsUpTo(S, n) ==
  IF n = 0 THEN {<<>>}
  ELSE LET shorter == TextsUpTo(S, n - 1)
       IN shorter \cup {Append(t, c) : t \in shorter, c \in S}

SlugChars == {"a", "A", "é", " ", "-", "1"}

Pad(k) == [i \in 1..k |-> "a"]

(* project names: short ones, and ones around the 40 characters slugify keeps *)
SlugInputs ==
  TextsUpTo(SlugChars, MaxName)
  \cup {Pad(k) \o t : k \in (SlugMax - 2)..SlugMax,
                      t \in TextsUpTo(SlugChars, MaxName)}

CorsChars == {"x", "y", " ", ","}

CorsEnvs ==
  {[CORS_ORIGINS |-> many, CORS_ORIGIN |-> one] :
     many \in {<<>>, <<"y">>}, one \in TextsUpTo(CorsChars, MaxRaw)}

(* the Origin header: absent, empty, or a text *)
OriginIn ==
  {None, Some(<<>>), Some(<<"x">>), Some(<<"y">>), Some(<<"x", " ">>),
   Some(<<"x", " ", "y">>), Some(<<"x", ",", "y">>)}

(* the server after start-up, before any request *)
InitPure == Init

ApplySlugify ==
  \E n \in SlugInputs :
    /\ req.kind = "none"
    /\ req' = [kind |-> "slugify", str |-> n]
    /\ fsResp' = Resp(200, TRUE, [slug |-> slugify(n)])
    /\ sbResp' = Resp(200, TRUE, [slug |-> slugify(n)])
    /\ UNCHANGED <<fsStore, sbStore, faults, steps>>

(* the cors middleware runs the origin option on the request's Origin header *)
ApplyCors ==
  \E env \in CorsEnvs, o \in OriginIn :
    /\ req.kind = "none"
    /\ req' = [kind |-> "cors", env |-> env, origin |-> o]
    /\ fsResp' = Resp(200, TRUE, [allowOrigin |-> FsCorsOrigin(env)])
    /\ sbResp' = IF SbCorsOrigin(env, o) THEN Resp(200, TRUE, NoBody) ELSE Err(500)
    /\ UNCHANGED <<fsStore, sbStore, faults, steps>>

NextPure == ApplySlugify \/ ApplyCors

SpecPure == InitPure /\ [][NextPure]_vars

-----------------------------------------------------------------------------
(* The filesystem variant started on a public/ directory that already     *)
(* holds a folder without scene.json                                       *)

StrayFile == [name |-> <<"modelo", ".glb">>, data |-> "f0"]

InitStray ==
  /\ fsScene = [id \in Ids |-> None]
  /\ fsFiles = [id \in Ids |-> IF id = IdB THEN {StrayFile} ELSE {}]
  /\ fsQuote = [id \in Ids |-> None]
  /\ sbProjects = {}
  /\ sbBucket = {}
  /\ sbQuotes = {}
  /\ req = [kind |-> "none"]
  /\ fsResp = NoResp
  /\ sbResp = NoResp
  /\ faults = [allowed |-> FALSE, now |-> "none"]
  /\ steps = 0

SpecStray == InitStray /\ [][Next]_vars

-----------------------------------------------------------------------------
(* State functions used by the properties *)

FsExists(id) == fsScene[id] # None

SbRows(id) == {row \in sbProjects : row.id = id}

SbExists(id) == SbRows(id) # {}

SbObjects(id) == {o \in sbBucket : o.path[1] = id}

SbQuoteRows(id) == {q \in sbQuotes : q.project_id = id}

(* everything the filesystem / Supabase variant stores for one project *)
FsProject(id) == <<fsScene[id], fsFiles[id], fsQuote[id]>>

SbProject(id) == <<SbRows(id), SbObjects(id), SbQuoteRows(id)>>

GuardedKinds == {"rename", "notes", "partsMeta", "delete", "putQuote"}

MutationKinds == GuardedKinds \cup {"transform", "model"}

(* the required fields of a request other than the password are present *)
HasOtherFields(r) ==
  CASE r.kind = "rename" -> r.name # <<>>
    [] r.kind = "notes" -> r.notes # Undef
    [] r.kind = "partsMeta" -> r.partId # None
    [] r.kind = "putQuote" -> r.items # None
    [] r.kind = "model" -> r.file # None
    [] OTHER -> TRUE

(* all the fields the handler requires are present *)
HasRequired(r) ==
  HasOtherFields(r) /\ (r.kind \in GuardedKinds => ~Falsy(r.password))

(* the request carries the password the project was created with *)
FsAuthorised(r) ==
  /\ ~Falsy(r.password)
  /\ FsExists(r.id)
  /\ hashPassword(r.password) = Get(fsScene[r.id]).passwordHash

SbAuthorised(r) ==
  /\ ~Falsy(r.password)
  /\ \E row \in SbRows(r.id) : hashPassword(r.password) = row.password_hash

-----------------------------------------------------------------------------
(* C1: every operation that changes a stored project or its quote          *)
(* (transform, model replacement, rename, notes, parts-meta, delete, quote *)
(* save) changes persisted state only when the request carries a password  *)
(* whose hash equals the hash stored for the project.                      *)
C1_ChangeOnlyWithPassword ==
  [][\A id \in Ids :
       (req'.kind \in MutationKinds /\ req'.id = id) =>
         /\ (FsProject(id)' # FsProject(id) => FsAuthorised(req'))
         /\ (SbProject(id)' # SbProject(id) => SbAuthorised(req'))]_vars

(* C2 as stated: on an existing project, rename / notes / parts-meta /     *)
(* delete / quote save without a password is answered 400, with a password *)
(* whose hash differs 403, and the stores are left as they were.           *)
C2_AsStated ==
  [][(req'.kind \in GuardedKinds) =>
       /\ (FsExists(req'.id) /\ ~FsAuthorised(req')) =>
             /\ fsResp'.status = (IF Falsy(req'.password) THEN 400 ELSE 403)
             /\ fsStore' = fsStore
       /\ (SbExists(req'.id) /\ ~SbAuthorised(req')) =>
             /\ sbResp'.status = (IF Falsy(req'.password) THEN 400 ELSE 403)
             /\ sbStore' = sbStore]_vars

(* C2 amended: on an existing project, rename / notes / parts-meta /       *)
(* delete / quote save without a password is answered 400; with a password *)
(* whose hash differs from the stored hash it is answered 403 when the     *)
(* other required fields are present and 400 when one of them is missing;  *)
(* in all these cases the record, the model file and the quote are left    *)
(* exactly as they were.                                                   *)
C2_WrongPasswordRejected ==
  [][(req'.kind \in GuardedKinds) =>
       /\ (FsExists(req'.id) /\ ~FsAuthorised(req')) =>
             /\ fsResp'.status = (IF Falsy(req'.password) \/ ~HasOtherFields(req')
                                  THEN 400 ELSE 403)
             /\ fsResp'.ok = FALSE
             /\ fsStore' = fsStore
       /\ (SbExists(req'.id) /\ ~SbAuthorised(req')) =>
             /\ sbResp'.status = (IF Falsy(req'.password) \/ ~HasOtherFields(req')
                                  THEN 400 ELSE 403)
             /\ sbResp'.ok = FALSE
             /\ sbStore' = sbStore]_vars

(* C2 witness: a well-formed delete with the wrong password was answered   *)
(* 403 by both variants and the project is still there.                    *)
C2_Witness ==
  /\ req.kind = "delete"
  /\ FsExists(req.id) /\ SbExists(req.id)
  /\ ~Falsy(req.password) /\ ~FsAuthorised(req) /\ ~SbAuthorised(req)
  /\ fsResp.status = 403 /\ sbResp.status = 403

(* C3: at most one quote per project; a successful PUT /api/quotes/:id    *)
(* replaces the stored quote by the items and total it answers with (one   *)
(* stored item per item of the request, in order), nothing but a save (or, *)
(* on the filesystem, the project's deletion) changes a stored quote, and  *)
(* GET /api/quotes/:id returns the stored items and total.                 *)
C3_OneQuoteLatestSave ==
  [][/\ \A id \in Ids : Cardinality(SbQuoteRows(id)') <= 1
     /\ (req'.kind = "putQuote" /\ fsResp'.status = 200) =>
          LET saved == fsResp'.body.quote
              sent == Get(req'.items)
          IN /\ fsQuote'[req'.id] # None
             /\ Get(fsQuote'[req'.id]).items = saved.items
             /\ Get(fsQuote'[req'.id]).total = saved.total
             /\ Len(saved.items) = Len(sent)
             /\ \A i \in 1..Len(sent) :
                  saved.items[i].concepto = StrOr(sent[i].concepto, "")
     /\ (req'.kind = "putQuote" /\ sbResp'.status = 200) =>
          LET saved == sbResp'.body.quote
              sent == Get(req'.items)
          IN /\ \E q \in sbQuotes' :
                  /\ q.project_id = req'.id
                  /\ q.items = saved.items
                  /\ q.total = saved.total
             /\ Len(saved.items) = Len(sent)
             /\ \A i \in 1..Len(sent) :
                  saved.items[i].concepto = StrOr(sent[i].concepto, "")
     /\ (req'.kind = "getQuote" /\ fsResp'.status = 200) =>
          /\ fsQuote[req'.id] # None
          /\ fsResp'.body.quote.items = Get(fsQuote[req'.id]).items
          /\ fsResp'.body.quote.total = Get(fsQuote[req'.id]).total
     /\ (req'.kind = "getQuote" /\ sbResp'.status = 200) =>
          \E q \in sbQuotes :
            /\ q.project_id = req'.id
            /\ sbResp'.body.quote.items = q.items
            /\ sbResp'.body.quote.total = q.total
     /\ \A id \in Ids :
          /\ fsQuote'[id] # fsQuote[id] =>
               /\ req'.kind \in {"putQuote", "delete"}
               /\ req'.id = id
               /\ fsResp'.status = 200
          /\ SbQuoteRows(id)' # SbQuoteRows(id) =>
               /\ req'.kind = "putQuote"
               /\ req'.id = id
               /\ sbResp'.status = 200]_vars

(* C3 witness: GET /api/quotes/:id returned, in both variants, a saved     *)
(* quote of two items.                                                     *)
C3_Witness ==
  /\ req.kind = "getQuote"
  /\ fsResp.status = 200 /\ sbResp.status = 200
  /\ Len(fsResp.body.quote.items) = 2
  /\ Len(sbResp.body.quote.items) = 2

(* C4: the storage location of every project holds exactly one model file, *)
(* the one named by the project record's modelFile / model_path.           *)
C4_SingleModelFile ==
  \A id \in Ids :
    /\ FsExists(id) =>
         /\ Cardinality(fsFiles[id]) = 1
         /\ \A f \in fsFiles[id] : Some(f.name) = Get(fsScene[id]).modelFile
    /\ \A row \in SbRows(id) :
         /\ Cardinality(SbObjects(id)) = 1
         /\ \A o \in SbObjects(id) : Some(o.path) = row.model_path

(* C5: after DELETE /api/projects/:id answered ok:true the project is gone *)
(* (no record, and the model file its record named is no longer stored),   *)
(* and while no project of that id is created again it stays gone: GET     *)
(* answers 404, the list does not contain it, and every mutation that      *)
(* carries its required fields answers 404.                                *)
C5_DeletedIsGone ==
  [][\A id \in Ids :
       /\ (req'.kind = "delete" /\ req'.id = id /\ fsResp'.status = 200) =>
            /\ ~FsExists(id)'
            /\ fsFiles'[id] = {}
       /\ (req'.kind = "delete" /\ req'.id = id /\ sbResp'.status = 200) =>
            /\ ~SbExists(id)'
            /\ \A row \in SbRows(id) : \A o \in sbBucket' : Some(o.path) # row.model_path
       /\ (~FsExists(id) /\ req'.kind # "create") =>
            /\ ~FsExists(id)'
            /\ (req'.kind = "list") =>
                 \A i \in 1..Len(fsResp'.body.projects) :
                   fsResp'.body.projects[i].id # id
            /\ (req'.kind \in MutationKinds \cup {"get"} /\ req'.id = id
                /\ HasRequired(req')) => fsResp'.status = 404
       /\ (~SbExists(id) /\ req'.kind # "create") =>
            /\ ~SbExists(id)'
            /\ (req'.kind = "list" /\ sbResp'.status = 200) =>
                 \A i \in 1..Len(sbResp'.body.projects) :
                   sbResp'.body.projects[i].id # id
            /\ (req'.kind \in MutationKinds \cup {"get"} /\ req'.id = id
                /\ HasRequired(req') /\ faults'.now # "lookup") =>
                 sbResp'.status = 404]_vars

(* the projects GET /api/projects lists *)
FsListed == FsGetProjects(FsSt).resp.body.projects

SbListed == SbGetProjects(SbSt, "none").resp.body.projects

(* C6: POST /api/projects with projectName, password or the model file     *)
(* missing is answered 400 and creates nothing: no record, no folder or    *)
(* storage object, and the listed projects are unchanged.                  *)
C6_IncompleteCreateRejected ==
  [][(/\ req'.kind = "create"
      /\ (req'.projectName = <<>> \/ Falsy(req'.password) \/ req'.file = None)) =>
       /\ fsResp'.status = 400 /\ fsResp'.ok = FALSE
       /\ sbResp'.status = 400 /\ sbResp'.ok = FALSE
       /\ fsStore' = fsStore
       /\ sbStore' = sbStore
       /\ FsListed' = FsListed
       /\ SbListed' = SbListed]_vars

(* C6 witness: a create without password was rejected by both variants     *)
(* while another project was stored.                                       *)
C6_Witness ==
  /\ req.kind = "create"
  /\ Falsy(req.password) /\ req.projectName # <<>> /\ req.file # None
  /\ fsResp.status = 400 /\ sbResp.status = 400
  /\ \E id \in Ids : FsExists(id) /\ SbExists(id)

(* what GET /api/projects/p must return after the create request r: the   *)
(* submitted position and rotation, {0,0,0} when absent or invalid JSON   *)
CreatedView(r, view) ==
  /\ view.id = slugify(r.projectName)
  /\ view.name = r.projectName
  /\ view.author = (IF r.author = Undef THEN "" ELSE r.author)
  /\ r.date # Undef => view.date = r.date
  /\ view.position = (IF r.position.kind = "json" THEN r.position.val ELSE Zero)
  /\ view.rotation = (IF r.rotation.kind = "json" THEN r.rotation.val ELSE Zero)
  /\ view.modelFile = Some(<<"modelo", Get(r.file).originalname[2]>>)
  /\ view.pendingNotes = ""
  /\ view.partsMeta = {}

(* the same, with {0,0,0} also for a submitted JSON null *)
CreatedViewOrDefault(r, view) ==
  /\ view.id = slugify(r.projectName)
  /\ view.name = r.projectName
  /\ view.author = (IF r.author = Undef THEN "" ELSE r.author)
  /\ r.date # Undef => view.date = r.date
  /\ view.position = (IF r.position.kind = "json" /\ r.position.val # NullVec
                      THEN r.position.val ELSE Zero)
  /\ view.rotation = (IF r.rotation.kind = "json" /\ r.rotation.val # NullVec
                      THEN r.rotation.val ELSE Zero)
  /\ view.modelFile = Some(<<"modelo", Get(r.file).originalname[2]>>)
  /\ view.pendingNotes = ""
  /\ view.partsMeta = {}

(* C7 as stated: after POST /api/projects answered 201 with projectId p,    *)
(* GET /api/projects/p returns id p, the submitted name, author, date,     *)
(* position and rotation (defaulting to {0,0,0} when absent or invalid     *)
(* JSON), modelFile "modelo" + extension, empty pendingNotes and           *)
(* partsMeta; and the creation password (and no other) authorises a        *)
(* mutation of p.                                                          *)
C7_AsStated ==
  (req.kind = "create") =>
    /\ fsResp.status = 201 =>
         LET p == fsResp.body.projectId
             got == FsGetProject(FsSt, [kind |-> "get", id |-> p]).resp
             del(pw) == FsDeleteProject(FsSt, [kind |-> "delete", id |-> p,
                                               password |-> pw]).resp
         IN /\ p = slugify(req.projectName)
            /\ got.status = 200
            /\ CreatedView(req, got.body.project)
            /\ \A pw \in Passwords :
                 del(pw).status = (IF pw = req.password THEN 200 ELSE 403)
    /\ sbResp.status = 201 =>
         LET p == sbResp.body.projectId
             got == SbGetProject(SbSt, [kind |-> "get", id |-> p], "none").resp
             del(pw) == SbDeleteProject(SbSt, [kind |-> "delete", id |-> p,
                                               password |-> pw], "none").resp
         IN /\ p = slugify(req.projectName)
            /\ got.status = 200
            /\ CreatedView(req, got.body.project)
            /\ \A pw \in Passwords :
                 del(pw).status = (IF pw = req.password THEN 200 ELSE 403)

(* C7 amended: as above, but position and rotation also default to         *)
(* {0,0,0} when the submitted text is the JSON value null (the stored      *)
(* null is read back as the default).                                      *)
C7_CreateFetchRoundTrip ==
  (req.kind = "create") =>
    /\ fsResp.status = 201 =>
         LET p == fsResp.body.projectId
             got == FsGetProject(FsSt, [kind |-> "get", id |-> p]).resp
             del(pw) == FsDeleteProject(FsSt, [kind |-> "delete", id |-> p,
                                               password |-> pw]).resp
         IN /\ p = slugify(req.projectName)
            /\ got.status = 200
            /\ CreatedViewOrDefault(req, got.body.project)
            /\ \A pw \in Passwords :
                 del(pw).status = (IF pw = req.password THEN 200 ELSE 403)
    /\ sbResp.status = 201 =>
         LET p == sbResp.body.projectId
             got == SbGetProject(SbSt, [kind |-> "get", id |-> p], "none").resp
             del(pw) == SbDeleteProject(SbSt, [kind |-> "delete", id |-> p,
                                               password |-> pw], "none").resp
         IN /\ p = slugify(req.projectName)
            /\ got.status = 200
            /\ CreatedViewOrDefault(req, got.body.project)
            /\ \A pw \in Passwords :
                 del(pw).status = (IF pw = req.password THEN 200 ELSE 403)

(* C7 witness: a create with author, date, position and rotation was       *)
(* answered 201 by both variants.                                          *)
C7_Witness ==
  /\ req.kind = "create"
  /\ fsResp.status = 201 /\ sbResp.status = 201
  /\ req.author = "ann" /\ req.position.kind = "json"

(* the logical state of one project in each variant *)
FsLogical(id) ==
  <<IF FsExists(id) THEN Some(SceneView(Get(readScene(FsSt, id)))) ELSE None,
    {f.name : f \in fsFiles[id]},
    IF fsQuote[id] = None THEN None
    ELSE Some(<<Get(fsQuote[id]).items, Get(fsQuote[id]).total>>)>>

SbLogical(id) ==
  <<IF SbExists(id)
    THEN Some(projectRowToView(CHOOSE row \in SbRows(id) : TRUE)) ELSE None,
    {o.path[2] : o \in SbObjects(id)},
    IF SbQuoteRows(id) = {} THEN None
    ELSE LET q == CHOOSE q \in SbQuoteRows(id) : TRUE IN Some(<<q.items, q.total>>)>>

(* C8: the filesystem and the Supabase variant answer every request with   *)
(* the same status code and ok flag and hold logically equal project and   *)
(* quote state.                                                            *)
C8_VariantsAgree ==
  /\ fsResp.status = sbResp.status
  /\ fsResp.ok = sbResp.ok
  /\ \A id \in Ids : FsLogical(id) = SbLogical(id)

(* C9: a rename, notes, parts-meta, delete or quote-save request that      *)
(* lacks a required field is answered 400 whether or not the addressed     *)
(* project exists, and 404 is answered only to requests whose required     *)
(* fields are all present.                                                 *)
C9_ValidateBeforeLookup ==
  (req.kind \in GuardedKinds) =>
    /\ ~HasRequired(req) => (fsResp.status = 400 /\ sbResp.status = 400)
    /\ (fsResp.status = 404 \/ sbResp.status = 404) => HasRequired(req)

(* the sheet built from the stored items and total of a quote *)
QuoteSheet(sheet, items, total) ==
  LET n == Len(items)
  IN /\ Len(sheet) = n + 2
     /\ \A i \in 1..Len(sheet) :
          DOMAIN sheet[i] = {"Concepto", "Cantidad", "Precio", "Importe"}
     /\ \A i \in 1..n :
          /\ sheet[i].Concepto = items[i].concepto
          /\ Number(sheet[i].Cantidad) = Number(items[i].cantidad)
          /\ Number(sheet[i].Precio) = Number(items[i].precio)
          /\ sheet[i].Importe = JsMul(items[i].cantidad, items[i].precio)
     /\ sheet[n + 1] = EmptyRow
     /\ sheet[n + 2].Concepto = "TOTAL"
     /\ sheet[n + 2].Importe = total

(* C10: GET /api/quotes/:id/excel answers 404 when no quote is stored;     *)
(* otherwise it persists nothing and builds one sheet with the columns     *)
(* Concepto, Cantidad, Precio, Importe: one row per stored item, in stored *)
(* order, with Importe = cantidad * precio, then one empty row, then the   *)
(* row "TOTAL" whose Importe is the stored total: n + 2 rows for n items.  *)
C10_ExcelExport ==
  [][(req'.kind = "excel") =>
       /\ fsStore' = fsStore
       /\ sbStore' = sbStore
       /\ IF fsQuote[req'.id] = None THEN fsResp'.status = 404
          ELSE /\ fsResp'.status = 200
               /\ QuoteSheet(fsResp'.body.sheet, Get(fsQuote[req'.id]).items,
                             Get(fsQuote[req'.id]).total)
       /\ IF SbQuoteRows(req'.id) = {} THEN sbResp'.status = 404
          ELSE /\ sbResp'.status = 200
               /\ \E q \in sbQuotes :
                    /\ q.project_id = req'.id
                    /\ QuoteSheet(sbResp'.body.sheet, q.items, q.total)]_vars

(* C10 witness: both variants exported a stored quote of two items as a    *)
(* sheet of four rows.                                                     *)
C10_Witness ==
  /\ req.kind = "excel"
  /\ fsResp.status = 200 /\ sbResp.status = 200
  /\ Len(fsResp.body.sheet) = 4 /\ Len(sbResp.body.sheet) = 4

-----------------------------------------------------------------------------
(* the folder public/<id> exists but holds no scene.json *)
FsStrayFolder(id) == fsScene[id] = None /\ fsFiles[id] # {}

(* C11: in the filesystem variant a project is fetchable and listed        *)
(* exactly when public/<id>/scene.json exists, and after every successful  *)
(* create or model replacement the folder holds scene.json together with   *)
(* the uploaded file under the name "modelo" + the extension of its        *)
(* original name, which is the name scene.json's modelFile gives.          *)
C11_FilesystemLayout ==
  /\ [](\A id \in Ids :
          /\ (FsGetProject(FsSt, [kind |-> "get", id |-> id]).resp.status = 200)
               <=> (fsScene[id] # None)
          /\ (\E i \in 1..Len(FsListed) : FsListed[i].id = id)
               <=> (fsScene[id] # None))
  /\ [][\A id \in Ids :
          (/\ \/ req'.kind = "create" /\ fsResp'.status = 201
                 /\ fsResp'.body.projectId = id
              \/ req'.kind = "model" /\ fsResp'.status = 200 /\ req'.id = id) =>
            LET modelo == <<"modelo", Get(req'.file).originalname[2]>>
            IN /\ fsScene'[id] # None
               /\ Get(fsScene'[id]).modelFile = Some(modelo)
               /\ \E f \in fsFiles'[id] :
                    f.name = modelo /\ f.data = Get(req'.file).data]_vars

(* C11 witness: a model replacement succeeded with a file of another       *)
(* extension while a folder without scene.json lies in public/.            *)
C11_Witness ==
  /\ req.kind = "model" /\ fsResp.status = 200
  /\ Get(req.file).originalname[2] = ".obj"
  /\ Get(fsScene[req.id]).modelFile = Some(<<"modelo", ".obj">>)
  /\ \E id \in Ids : FsStrayFolder(id)

-----------------------------------------------------------------------------
(* the configured allow-list text: CORS_ORIGINS, or else CORS_ORIGIN *)
CorsConfigured(env) ==
  IF env.CORS_ORIGINS # <<>> THEN env.CORS_ORIGINS ELSE env.CORS_ORIGIN

(* o is one of the values listed in raw: o is not empty, has no comma and  *)
(* no blank at either end, and raw holds it between two commas (or the     *)
(* ends of raw) with nothing but blanks around it                          *)
Listed(raw, o) ==
  /\ o # <<>>
  /\ o[1] # " " /\ o[Len(o)] # " "
  /\ \A k \in 1..Len(o) : o[k] # ","
  /\ \E i \in 1..Len(raw), j \in 1..Len(raw) :
       /\ i <= j
       /\ i = 1 \/ raw[i - 1] = ","
       /\ j = Len(raw) \/ raw[j + 1] = ","
       /\ \A k \in i..j : raw[k] # ","
       /\ \E p \in i..j :
            /\ p + Len(o) - 1 <= j
            /\ SubSeq(raw, p, p + Len(o) - 1) = o
            /\ \A k \in i..(p - 1) : raw[k] = " "
            /\ \A k \in (p + Len(o))..j : raw[k] = " "

(* raw lists at least one non-empty value *)
HasEntry(raw) == \E k \in 1..Len(raw) : raw[k] \notin {" ", ","}

(* C12 as stated: with no allowed origin configured every origin is        *)
(* accepted (the filesystem variants answer with the origin "*"); in the   *)
(* Supabase variant, with an allow-list configured, a request is accepted  *)
(* exactly when it carries no Origin header or its Origin is one of the    *)
(* trimmed, non-empty listed values.                                       *)
C12_AsStated ==
  (req.kind = "cors") =>
    LET raw == CorsConfigured(req.env)
    IN /\ req.env.CORS_ORIGIN = <<>> => fsResp.body.allowOrigin = <<"*">>
       /\ raw = <<>> => sbResp.ok
       /\ raw # <<>> =>
            (sbResp.ok <=> (req.origin = None \/ Listed(raw, Get(req.origin))))

(* C12 amended: the filesystem variants answer with the origin "*" when    *)
(* CORS_ORIGIN is not set; the Supabase variant accepts every request when *)
(* the configured text lists no non-empty value (it is unset, or holds     *)
(* only commas and blanks), and otherwise accepts a request exactly when   *)
(* its Origin header is absent or empty or is one of the trimmed,          *)
(* non-empty listed values, rejecting it with an error otherwise.          *)
C12_CorsAllowList ==
  (req.kind = "cors") =>
    LET raw == CorsConfigured(req.env)
    IN /\ req.env.CORS_ORIGIN = <<>> => fsResp.body.allowOrigin = <<"*">>
       /\ ~HasEntry(raw) => sbResp.ok
       /\ HasEntry(raw) =>
            (sbResp.ok <=> \/ req.origin = None
                           \/ Get(req.origin) = <<>>
                           \/ Listed(raw, Get(req.origin)))

(* C12 witness: the origin "x" was accepted because the list, written with *)
(* a blank before the value and a second value, names it.                  *)
C12_Witness ==
  /\ req.kind = "cors"
  /\ req.origin = Some(<<"x">>)
  /\ req.env.CORS_ORIGINS = <<>>
  /\ req.env.CORS_ORIGIN = <<" ", "x", ",">>
  /\ sbResp.ok

-----------------------------------------------------------------------------
(* C13: PUT /api/projects/:id/transform on an existing project compares    *)
(* the password only when one is supplied: with a password whose hash      *)
(* differs from the stored hash it is answered 403 and changes nothing;    *)
(* with the matching password or with no password it is answered 200 and   *)
(* the supplied position and rotation are stored.                          *)
C13_TransformPasswordOptional ==
  [][\A id \in Ids :
       (req'.kind = "transform" /\ req'.id = id) =>
         /\ FsExists(id) =>
              IF /\ ~Falsy(req'.password)
                 /\ hashPassword(req'.password) # Get(fsScene[id]).passwordHash
              THEN fsResp'.status = 403 /\ fsStore' = fsStore
              ELSE /\ fsResp'.status = 200 /\ fsResp'.ok
                   /\ req'.position # None =>
                        Get(fsScene'[id]).position = Get(req'.position)
                   /\ req'.rotation # None =>
                        Get(fsScene'[id]).rotation = Get(req'.rotation)
         /\ SbExists(id) =>
              IF /\ ~Falsy(req'.password)
                 /\ \A row \in SbRows(id) :
                      hashPassword(req'.password) # row.password_hash
              THEN sbResp'.status = 403 /\ sbStore' = sbStore
              ELSE /\ sbResp'.status = 200 /\ sbResp'.ok
                   /\ \A row \in SbRows(id)' :
                        /\ req'.position # None => row.position = Get(req'.position)
                        /\ req'.rotation # None => row.rotation = Get(req'.rotation)]_vars

(* C13 witness: a transform without password changed the stored position   *)
(* of a project in both variants.                                          *)
C13_Witness ==
  /\ req.kind = "transform" /\ Falsy(req.password)
  /\ fsResp.status = 200 /\ sbResp.status = 200
  /\ req.position # None
  /\ Get(fsScene[req.id]).position = Get(req.position)
  /\ \A row \in SbRows(req.id) : row.position = Get(req.position)

-----------------------------------------------------------------------------
(* C14: a successful transform update stores the supplied position and the *)
(* supplied rotation; a component absent from the request keeps the value  *)
(* stored before the request, or {x:0,y:0,z:0} when none (null) was        *)
(* stored; so sending only the position leaves the rotation as it was and  *)
(* vice versa.                                                             *)
C14_TransformPartialUpdate ==
  [][\A id \in Ids :
       (req'.kind = "transform" /\ req'.id = id) =>
         /\ fsResp'.status = 200 =>
              LET old == Get(fsScene[id])
                  new == Get(fsScene'[id])
              IN /\ new.position =
                      (IF req'.position # None THEN Get(req'.position)
                       ELSE IF old.position = NullVec THEN Zero ELSE old.position)
                 /\ new.rotation =
                      (IF req'.rotation # None THEN Get(req'.rotation)
                       ELSE IF old.rotation = NullVec THEN Zero ELSE old.rotation)
                 /\ fsResp'.body.project.position = new.position
                 /\ fsResp'.body.project.rotation = new.rotation
         /\ sbResp'.status = 200 =>
              /\ Cardinality(SbRows(id)') = 1
              /\ \A old \in SbRows(id), new \in SbRows(id)' :
                   /\ new.position =
                        (IF req'.position # None THEN Get(req'.position)
                         ELSE IF old.position = NullVec THEN Zero ELSE old.position)
                   /\ new.rotation =
                        (IF req'.rotation # None THEN Get(req'.rotation)
                         ELSE IF old.rotation = NullVec THEN Zero ELSE old.rotation)
                   /\ sbResp'.body.project.position = new.position
                   /\ sbResp'.body.project.rotation = new.rotation]_vars

(* C14 witness: a transform that carried only the rotation was applied to  *)
(* the project created with a null position: the rotation is the supplied  *)
(* one and the position is {0,0,0}.                                        *)
C14_Witness ==
  /\ req.kind = "transform" /\ req.id = IdB
  /\ req.position = None /\ req.rotation = Some(V1)
  /\ fsResp.status = 200 /\ sbResp.status = 200
  /\ Get(fsScene[IdB]).position = Zero /\ Get(fsScene[IdB]).rotation = V1
  /\ \A row \in SbRows(IdB) : row.position = Zero /\ row.rotation = V1

-----------------------------------------------------------------------------
(* the entry C15 expects under key after the request r: per field the      *)
(* request's value when present, else the previous entry's value, else the *)
(* default                                                                 *)
ExpectedPartMeta(pm, key, r) ==
  LET old == {e \in pm : e.key = key}
      field(new, f, dflt) ==
        IF new # Undef THEN new
        ELSE IF old # {} THEN (CHOOSE e \in old : TRUE)[f]
        ELSE dflt
  IN [key |-> key,
      name |-> field(r.name, "name", ""),
      notes |-> field(r.notes, "notes", ""),
      color |-> field(r.color, "color", "#22c55e"),
      materialPreset |-> field(r.materialPreset, "materialPreset", "plastic")]

(* C15: a successful parts-meta update writes only the entry keyed         *)
(* String(partId): each of name, notes, color, materialPreset is the       *)
(* request's value when the field is present, otherwise the entry's        *)
(* previous value, otherwise the default ("", "", "#22c55e", "plastic");   *)
(* the entries of all other parts are unchanged.                           *)
C15_PartsMetaMerge ==
  [][\A id \in Ids :
       (req'.kind = "partsMeta" /\ req'.id = id) =>
         /\ fsResp'.status = 200 =>
              LET key == Get(req'.partId).s
                  pm == Get(fsScene[id]).partsMeta
                  pm2 == Get(fsScene'[id]).partsMeta
              IN /\ {e \in pm2 : e.key = key} = {ExpectedPartMeta(pm, key, req')}
                 /\ {e \in pm2 : e.key # key} = {e \in pm : e.key # key}
         /\ sbResp'.status = 200 =>
              \A old \in SbRows(id), new \in SbRows(id)' :
                LET key == Get(req'.partId).s
                IN /\ {e \in new.parts_meta : e.key = key}
                        = {ExpectedPartMeta(old.parts_meta, key, req')}
                   /\ {e \in new.parts_meta : e.key # key}
                        = {e \in old.parts_meta : e.key # key}]_vars

-----------------------------------------------------------------------------
FrameKinds == {"rename", "notes", "transform", "partsMeta", "model"}

(* the fields of scene.json / columns of projects a mutation may write *)
FsOwnFields(kind) ==
  CASE kind = "rename" -> {"projectName"}
    [] kind = "notes" -> {"pendingNotes"}
    [] kind = "transform" -> {"position", "rotation"}
    [] kind = "partsMeta" -> {"partsMeta"}
    [] kind = "model" -> {"modelFile"}

SbOwnFields(kind) ==
  CASE kind = "rename" -> {"name"}
    [] kind = "notes" -> {"pending_notes"}
    [] kind = "transform" -> {"position", "rotation"}
    [] kind = "partsMeta" -> {"parts_meta"}
    [] kind = "model" -> {"model_path", "model_filename"}

(* the records old and new agree outside the given fields *)
SameExcept(old, new, fields) ==
  /\ DOMAIN old = DOMAIN new
  /\ \A c \in DOMAIN old \ fields : old[c] = new[c]

(* C16: a successful rename, notes, transform, parts-meta or model         *)
(* replacement changes only its own field of the addressed project (the    *)
(* name, pendingNotes, position/rotation, partsMeta, the model file and    *)
(* its name): the project keeps its id, and its password hash, author,     *)
(* date and every other field, its quote, and all other projects are       *)
(* unchanged; a rename stores the given name, notes the given notes.       *)
C16_MutationFrame ==
  [][\A id \in Ids :
       (req'.kind \in FrameKinds /\ req'.id = id) =>
         /\ fsResp'.status = 200 =>
              /\ fsScene[id] # None /\ fsScene'[id] # None
              /\ SameExcept(Get(fsScene[id]), Get(fsScene'[id]),
                            FsOwnFields(req'.kind))
              /\ fsResp'.body.project.id = id
              /\ req'.kind = "rename" => Get(fsScene'[id]).projectName = req'.name
              /\ req'.kind = "notes" => Get(fsScene'[id]).pendingNotes = req'.notes
              /\ req'.kind # "model" => fsFiles' = fsFiles
              /\ fsQuote' = fsQuote
              /\ \A other \in Ids \ {id} :
                   fsScene'[other] = fsScene[other] /\ fsFiles'[other] = fsFiles[other]
         /\ sbResp'.status = 200 =>
              /\ Cardinality(SbRows(id)) = 1 /\ Cardinality(SbRows(id)') = 1
              /\ \A old \in SbRows(id), new \in SbRows(id)' :
                   /\ SameExcept(old, new, SbOwnFields(req'.kind))
                   /\ req'.kind = "rename" => new.name = req'.name
                   /\ req'.kind = "notes" => new.pending_notes = req'.notes
              /\ sbResp'.body.project.id = id
              /\ req'.kind # "model" => sbBucket' = sbBucket
              /\ sbQuotes' = sbQuotes
              /\ \A other \in Ids \ {id} :
                   SbRows(other)' = SbRows(other) /\ SbObjects(other)' = SbObjects(other)]_vars

(* C16 witness: a project created with an author was renamed in both       *)
(* variants to a name of another slug, and kept its id and its author.     *)
C16_Witness ==
  /\ req.kind = "rename"
  /\ fsResp.status = 200 /\ sbResp.status = 200
  /\ slugify(req.name) # req.id
  /\ Get(fsScene[req.id]).projectName = req.name
  /\ Get(fsScene[req.id]).author = "ann"
  /\ \A row \in SbRows(req.id) : row.name = req.name /\ row.author = "ann"

-----------------------------------------------------------------------------
(* the quote stored for id by the filesystem variant / the Supabase variant *)
FsStoredQuote(id) == Get(fsQuote[id])

SbStoredQuote(id) == CHOOSE q \in sbQuotes : q.project_id = id

(* C17: a successful quote save stores as total the request's total when   *)
(* it is a number, and otherwise the sum over the normalized items of      *)
(* cantidad * precio, 0 when that sum is not finite.                       *)
C17_QuoteTotalRule ==
  [][\A id \in Ids :
       (req'.kind = "putQuote" /\ req'.id = id) =>
         LET expected ==
               IF IsNumberType(req'.total) THEN req'.total
               ELSE ComputedTotal(NormalizeItems(Get(req'.items)))
         IN /\ fsResp'.status = 200 => FsStoredQuote(id)'.total = expected
            /\ sbResp'.status = 200 => SbStoredQuote(id)'.total = expected]_vars

(* the number C18 expects for a cantidad or precio of the request *)
ExpectedNumber(v) ==
  CASE v[1] = "num" -> v
    [] v[1] = "numstr" -> Num(v[2])
    [] v[1] = "inf" -> Inf
    [] OTHER -> Num(0)

(* the stored items are the normalized items of the request *)
ItemsNormalized(stored, sent) ==
  /\ Len(stored) = Len(sent)
  /\ \A i \in 1..Len(sent) :
       /\ stored[i].concepto = (IF sent[i].concepto = Undef THEN "" ELSE sent[i].concepto)
       /\ stored[i].link = (IF sent[i].link = Undef THEN "" ELSE sent[i].link)
       /\ stored[i].cantidad = ExpectedNumber(sent[i].cantidad)
       /\ stored[i].precio = ExpectedNumber(sent[i].precio)
       /\ IsNumberType(stored[i].cantidad) /\ IsNumberType(stored[i].precio)

(* C18: a successful quote save stores exactly one item per input item, in *)
(* input order, with concepto and link as strings ("" when missing) and    *)
(* cantidad and precio as numbers, 0 when missing or not numeric; a        *)
(* request whose items value is not an array is answered 400 and stores    *)
(* nothing.                                                                *)
C18_QuoteItemNormalization ==
  [][\A id \in Ids :
       (req'.kind = "putQuote" /\ req'.id = id) =>
         /\ fsResp'.status = 200 =>
              ItemsNormalized(FsStoredQuote(id)'.items, Get(req'.items))
         /\ sbResp'.status = 200 =>
              ItemsNormalized(SbStoredQuote(id)'.items, Get(req'.items))
         /\ req'.items = None =>
              /\ fsResp'.status = 400 /\ fsStore' = fsStore
              /\ sbResp'.status = 400 /\ sbStore' = sbStore]_vars

-----------------------------------------------------------------------------
(* the list holds exactly one entry for each id of S and no other entry *)
OneEntryEach(list, S) ==
  /\ {list[i].id : i \in 1..Len(list)} = S
  /\ \A i, j \in 1..Len(list) : list[i].id = list[j].id => i = j

(* C19: GET /api/projects returns exactly one entry for each existing      *)
(* project and none for a deleted one; in the filesystem variant a folder  *)
(* of public/ without scene.json contributes no entry.                     *)
C19_ListExact ==
  /\ OneEntryEach(FsListed, {id \in Ids : FsExists(id)})
  /\ OneEntryEach(SbListed, {id \in Ids : SbExists(id)})
  /\ \A id \in Ids :
       FsStrayFolder(id) => \A i \in 1..Len(FsListed) : FsListed[i].id # id
  /\ (req.kind = "list") =>
       /\ fsResp.status = 200 /\ fsResp.body.projects = FsListed
       /\ sbResp.status = 200 /\ sbResp.body.projects = SbListed
  /\ (req.kind = "delete" /\ fsResp.status = 200) =>
       \A i \in 1..Len(FsListed) : FsListed[i].id # req.id
  /\ (req.kind = "delete" /\ sbResp.status = 200) =>
       \A i \in 1..Len(SbListed) : SbListed[i].id # req.id

(* C19 witness: the list was answered with the one existing project while  *)
(* public/ also holds a folder without scene.json.                         *)
C19_Witness ==
  /\ req.kind = "list"
  /\ fsResp.status = 200 /\ sbResp.status = 200
  /\ Len(fsResp.body.projects) = 1 /\ Len(sbResp.body.projects) = 1
  /\ fsResp.body.projects[1].id = IdA
  /\ FsStrayFolder(IdB)

-----------------------------------------------------------------------------
(* the characters a slug may hold: a-z, 0-9 and "-" *)
SlugAlphabet == AlphaNum \cup {"-"}

(* the name holds an ASCII letter or digit *)
HasAsciiAlnum(str) == \E i \in 1..Len(str) : str[i] \in {"a", "A", "1"}

(* C20: slugify returns for every input a non-empty string of at most 40   *)
(* characters made only of a-z, 0-9 and "-" that neither starts nor ends   *)
(* with "-"; a name with no ASCII letter or digit yields "proyecto".       *)
C20_SlugShape ==
  (req.kind = "slugify") =>
    LET slug == fsResp.body.slug
    IN /\ sbResp.body.slug = slug
       /\ slug # <<>>
       /\ Len(slug) <= SlugMax
       /\ \A i \in 1..Len(slug) : slug[i] \in SlugAlphabet
       /\ slug[1] # "-"
       /\ slug[Len(slug)] # "-"
       /\ ~HasAsciiAlnum(req.str) => slug = Proyecto

-----------------------------------------------------------------------------
(* the model file the project record names, as stored *)
FsStoredModel(id) ==
  {f \in fsFiles[id] : Some(f.name) = Get(fsScene[id]).modelFile}

SbStoredModel(id) ==
  {o \in sbBucket : \E row \in SbRows(id) : Some(o.path) = row.model_path}

(* C21: POST /api/projects with a name whose slug is the id of an existing *)
(* project leaves that project's stored record (password hash, name,       *)
(* transform, notes, partsMeta) and its stored model file as they were.    *)
C21_CreateKeepsExisting ==
  [][\A id \in Ids :
       (req'.kind = "create" /\ slugify(req'.projectName) = id) =>
         /\ FsExists(id) =>
              /\ fsScene'[id] = fsScene[id]
              /\ FsStoredModel(id) \subseteq fsFiles'[id]
         /\ SbExists(id) =>
              /\ \A row \in SbRows(id) : row \in sbProjects'
              /\ SbStoredModel(id) \subseteq sbBucket']_vars

-----------------------------------------------------------------------------
QuoteReadKinds == {"getQuote", "excel"}

(* C22: GET /api/quotes/:id and the excel export succeed only if project   *)
(* :id exists, a quote is saved only for an existing project, and after    *)
(* the project is deleted its quote is no longer stored, hence no longer   *)
(* returned.                                                               *)
C22_QuoteOnlyForProject ==
  [][\A id \in Ids :
       /\ (req'.kind \in QuoteReadKinds \cup {"putQuote"} /\ req'.id = id) =>
            /\ (fsResp'.status = 200 => FsExists(id))
            /\ (sbResp'.status = 200 => SbExists(id))
       /\ (req'.kind = "delete" /\ req'.id = id) =>
            /\ (fsResp'.status = 200 => fsQuote'[id] = None)
            /\ (sbResp'.status = 200 => SbQuoteRows(id)' = {})]_vars

-----------------------------------------------------------------------------
(* C23: in the Supabase variant, also when a storage upload or a database  *)
(* write fails, every project row that names a model_path refers to an     *)
(* object stored in the bucket, and every object in the bucket is named by *)
(* some project row.                                                       *)
C23_RowsAndObjectsAgree ==
  /\ \A row \in sbProjects :
       row.model_path # None =>
         \E o \in sbBucket : o.path = Get(row.model_path)
  /\ \A o \in sbBucket :
       \E row \in sbProjects : row.model_path = Some(o.path)

-----------------------------------------------------------------------------
(* the Supabase handler a request is routed to *)
SbRoute(st, r, f) ==
  CASE r.kind = "create" -> SbPostProject(st, r, f)
    [] r.kind = "list" -> SbGetProjects(st, f)
    [] r.kind = "get" -> SbGetProject(st, r, f)
    [] r.kind = "transform" -> SbPutTransform(st, r, f)
    [] r.kind = "model" -> SbPutModel(st, r, f)
    [] r.kind = "rename" -> SbPutRename(st, r, f)
    [] r.kind = "notes" -> SbPutNotes(st, r, f)
    [] r.kind = "partsMeta" -> SbPutPartsMeta(st, r, f)
    [] r.kind = "delete" -> SbDeleteProject(st, r, f)
    [] r.kind = "getQuote" -> SbGetQuote(st, r, f)
    [] r.kind = "putQuote" -> SbPutQuote(st, r, f)
    [] r.kind = "excel" -> SbGetExcel(st, r, f)

OkStatuses == {200, 201}

ErrStatuses == {400, 403, 404, 500}

(* one response of the documented shape: ok is true exactly for 200 / 201, *)
(* and only the excel download succeeds with something other than JSON     *)
WellFormed(r, resp) ==
  /\ resp.status \in OkStatuses \cup ErrStatuses
  /\ resp.ok = (resp.status \in OkStatuses)
  /\ (resp.status \in ErrStatuses) => resp.body = NoBody
  /\ ("sheet" \in DOMAIN resp.body) => r.kind = "excel"

(* C24: every request to a project or quote route is answered with exactly *)
(* one response, ok:true with 200 / 201 or ok:false with 400, 403, 404 or  *)
(* 500 (the excel download being the only non-JSON success), and a backend *)
(* error met inside a handler is answered 500: when a call fails that the  *)
(* handler makes on the way to a success, the answer is 500.               *)
C24_OneResponsePerRequest ==
  [][/\ req'.kind # "none"
     /\ WellFormed(req', fsResp')
     /\ WellFormed(req', sbResp')
     /\ (faults'.now # "none"
         /\ SbRoute(SbSt, req', "none").resp.status \in OkStatuses) =>
          sbResp'.status = 500]_vars

====
